---- MODULE Spec2Model ----
(***************************************************************************)
(* Model of the middleware reconciliation of the global hub operator       *)
(* (operator/pkg/controllers/hubofhubs/globalhub_middleware.go):           *)
(* ReconcileMiddleware with its transport task, storage task, closer and   *)
(* result loop, ReconcileTransport, ReconcileStorage and                   *)
(* detectTransportProtocol.  A reconciliation pass is one call of          *)
(* ReconcileMiddleware; the goroutines of a pass are processes indexed by  *)
(* the pass number and they keep running after the call has returned.      *)
(***************************************************************************)
EXTENDS Integers, Sequences, FiniteSets, TLC

\* ---- bounds ----
MaxPass == 2            \* number of reconciliation passes the host starts
MaxPolls == 3           \* poll intervals that fit in the poll timeout
                        \* (the code's 10 minutes / 2 seconds is 300)

\* ---- program constants ----
PollInterval == 2       \* seconds, wait.PollUntilContextTimeout(ctx, 2*time.Second, ...)
PollTimeout == PollInterval * MaxPolls  \* seconds, scaled 10*time.Minute
RequeueAfter == 5       \* seconds, ctrl.Result{RequeueAfter: 5 * time.Second}
ErrorChanCap == 2       \* make(chan error, 2)

Passes == 1..MaxPass

Nil == "nil"
SecretTransporter == "SecretTransporter"
StrimziTransporter == "StrimziTransporter"

\* contents of the transport secret; NoSecret when the secret does not exist
NoSecret == "none"
Secrets == {NoSecret, "secretCred"}

\* errors
ErrNotFound == "NotFound"
ErrLookup == "ErrLookup"
ErrCtxCanceled == "context canceled"
ErrDeadline == "context deadline exceeded"
ErrNotReady == "ErrCredentialNotReady"
ErrWatcher == "ErrAddKafkaCRDController"
ErrKafkaNotReady == "the kafka controller is not ready"

\* the calls of ReconcileTransport before the credential poll, in program order
RTSteps == <<"Prereq", "NewTransporter", "CreateUser", "GenerateClusterTopic",
             "CreateTopic", "GrantReadEvent", "GrantReadStatus", "GrantWriteSpec">>
CredentialPoll == "CredentialPoll"

ErrOf(step) == "Err" \o step

\* which calls can return an error: GenerateClusterTopic returns no error,
\* NewBYOTransporter returns no error, and the bring-your-own transporter's
\* CreateUser, CreateTopic, GrantRead and GrantWrite are no-ops
CanFail(step, protocol) ==
  /\ step # "GenerateClusterTopic"
  /\ protocol = StrimziTransporter \/ step = "Prereq"

\* the environment of a run lets at most one call fail, any number of times:
\* the secret lookup of the detection, a call of ReconcileTransport, the
\* credential getter (not ready before attempt readyAt), or
\* addKafkaCRDController
FaultPoints(protocol) ==
  {"none", "Lookup", CredentialPoll}
  \cup (IF protocol = StrimziTransporter THEN {"AddController"} ELSE {})
  \cup {RTSteps[i] : i \in {j \in 1..Len(RTSteps) : CanFail(RTSteps[j], protocol)}}

VARIABLES
  \* host and environment
  pass,            \* number of the current pass, 0 before the first
  cancelled,       \* ctx of the manager is cancelled
  secret,          \* the transport secret (GHTransportSecretName)
  installCrunchy,  \* config.GetInstallCrunchyOperator(mgh)
  storageSecret,   \* the storage secret exists
  fault,           \* the call that the environment lets fail, or "none"
  readyAt,         \* attempt of a poll from which the managed credential is ready
  \* fields of the reconciler and process-wide state
  KafkaInit,       \* r.KafkaInit
  kafkaConn,       \* r.KafkaController.conn, Nil while KafkaController or conn is nil
  TransportConn,   \* r.MiddlewareConfig.TransportConn
  StorageConn,     \* r.MiddlewareConfig.StorageConn
  watcherInstalls, \* successful addKafkaCRDController calls
  \* per pass: channel, wait group, result of the call
  errorChan, closed, wg, result,
  \* per pass: transport task
  tpc, proto, detErr, lookupRes, lookups, calls, effects, attempts,
  elapsed, rtConn, rtErr, tSent, tStored,
  \* per pass: storage task
  spc, sElapsed, sConn, sSent, sStored,
  \* per pass: TransportConn when the pass started
  startTConn

envVars == <<cancelled, secret, installCrunchy, storageSecret, fault, readyAt>>
sharedVars == <<KafkaInit, kafkaConn, TransportConn, StorageConn, watcherInstalls>>
chanVars == <<errorChan, closed, wg>>
rtVars == <<calls, effects, attempts, elapsed, rtConn, rtErr>>
detVars == <<proto, detErr, lookupRes, lookups>>
tVars == <<tpc, detVars, rtVars, tSent, tStored>>
sVars == <<spc, sElapsed, sConn, sSent, sStored>>
hostVars == <<pass, result, startTConn>>
middlewareVars == <<envVars, sharedVars, chanVars, tVars, sVars, hostVars>>

\* ---- the generic consumer (package consumer) ----
VARIABLES
  \* construction
  Extends,         \* tranConfig.Extends: Nil or a map from topic to channel
  chanCount,       \* channels made by gochan.New() so far
  consumers,       \* the consumers NewGenericConsumer has returned
  newErr,          \* error of the last NewGenericConsumer call
  transportID,     \* package variable transportID
  \* Start of one consumer
  startPc,         \* position of Start
  startOf,         \* index in consumers of the consumer that is started, 0: none
  queried,         \* getInitOffset has queried the offset store
  positions,       \* the records the offset store returned, "none" without a query
  receiveContext,  \* positions carried by receiveContext, or DefaultPosition
  startErr,        \* error returned by Start
  \* receive loop of the started consumer
  ctxCancelled,    \* ctx of Start is cancelled
  pool,            \* messages the transport holds for the consumer
  inbox,           \* ids of the messages received, in the order of receipt
  hpc,             \* per message: position of the handler invoked for it
  assembler,       \* c.assembler: group key -> chunks recorded
  eventChan,       \* c.eventChan: ids of the handlers blocked in the send
  delivered,       \* events a reader of EventChan() has taken
  forwards,        \* per message: times its handler reached a send on eventChan
  eventData,       \* per message: the payload of the event in its handler
  outcome,         \* per message: what assemble and SetData came to
  acks,            \* per message: the results the handler returned
  pollDone         \* the poll goroutine of StartReceiver has ended

constructVars == <<Extends, chanCount, consumers, newErr, transportID>>
startVars == <<startPc, startOf, queried, positions, receiveContext, startErr>>
receiveVars == <<ctxCancelled, pool, inbox, hpc, assembler, eventChan, delivered,
                 forwards, eventData, outcome, acks, pollDone>>
consumerVars == <<constructVars, startVars, receiveVars>>

vars == <<middlewareVars, consumerVars>>

NoResult == [state |-> "running"]

Init ==
  /\ pass = 0
  /\ cancelled = FALSE
  /\ secret \in Secrets
  /\ installCrunchy \in BOOLEAN
  /\ storageSecret \in {b \in BOOLEAN : b => ~installCrunchy}
  /\ fault \in FaultPoints(IF secret = NoSecret THEN StrimziTransporter
                            ELSE SecretTransporter)
  /\ readyAt \in (IF fault = CredentialPoll THEN 2..(MaxPolls + 1) ELSE {1})
  /\ KafkaInit = FALSE
  /\ kafkaConn = Nil
  /\ TransportConn = Nil
  /\ StorageConn = Nil
  /\ watcherInstalls = 0
  /\ errorChan = [p \in Passes |-> <<>>]
  /\ closed = [p \in Passes |-> FALSE]
  /\ wg = [p \in Passes |-> 0]
  /\ result = [p \in Passes |-> NoResult]
  /\ tpc = [p \in Passes |-> "idle"]
  /\ proto = [p \in Passes |-> Nil]
  /\ detErr = [p \in Passes |-> Nil]
  /\ lookupRes = [p \in Passes |-> "none"]
  /\ lookups = [p \in Passes |-> 0]
  /\ calls = [p \in Passes |-> <<>>]
  /\ effects = [p \in Passes |-> {}]
  /\ attempts = [p \in Passes |-> 0]
  /\ elapsed = [p \in Passes |-> 0]
  /\ rtConn = [p \in Passes |-> Nil]
  /\ rtErr = [p \in Passes |-> Nil]
  /\ tSent = [p \in Passes |-> Nil]
  /\ tStored = [p \in Passes |-> "none"]
  /\ spc = [p \in Passes |-> "idle"]
  /\ sElapsed = [p \in Passes |-> 0]
  /\ sConn = [p \in Passes |-> Nil]
  /\ sSent = [p \in Passes |-> Nil]
  /\ sStored = [p \in Passes |-> "none"]
  /\ startTConn = [p \in Passes |-> "none"]

\* ---- the host: starts ReconcileMiddleware, one call at a time ----
\* The record of a pass (its goroutines' local variables and what they did) is
\* kept while one of its goroutines runs and while the pass is the latest;
\* after that it is cleared.
Finished(p) == closed[p] /\ result[p].state = "returned"
Clear(f, ps, v) == [p \in Passes |-> IF p \in ps THEN v ELSE f[p]]

ClearPasses(ps, nxt) ==
  /\ errorChan' = Clear(errorChan, ps, <<>>)
  /\ result' = Clear(result, ps, [state |-> "cleared"])
  /\ proto' = Clear(proto, ps, Nil)
  /\ detErr' = Clear(detErr, ps, Nil)
  /\ lookupRes' = Clear(lookupRes, ps, "none")
  /\ lookups' = Clear(lookups, ps, 0)
  /\ calls' = Clear(calls, ps, <<>>)
  /\ effects' = Clear(effects, ps, {})
  /\ attempts' = Clear(attempts, ps, 0)
  /\ elapsed' = Clear(elapsed, ps, 0)
  /\ rtConn' = Clear(rtConn, ps, Nil)
  /\ rtErr' = Clear(rtErr, ps, Nil)
  /\ tSent' = Clear(tSent, ps, Nil)
  /\ tStored' = Clear(tStored, ps, "none")
  /\ sElapsed' = Clear(sElapsed, ps, 0)
  /\ sConn' = Clear(sConn, ps, Nil)
  /\ sSent' = Clear(sSent, ps, Nil)
  /\ sStored' = Clear(sStored, ps, "none")
  /\ startTConn' = [p \in Passes |-> IF p \in ps THEN "none"
                                     ELSE IF p = nxt THEN TransportConn ELSE startTConn[p]]

\* ReconcileMiddleware up to the result loop: make(chan error, 2), wg.Add(1)
\* and go for each of the two tasks, go for the closer.  The host calls it
\* again only after the previous call has returned.  Goroutines of the
\* previous pass may still run when a pass starts; those of the passes before
\* it have ended by then.
StartPass ==
  /\ pass < MaxPass
  /\ pass > 0 => result[pass].state = "returned"
  /\ \A p \in 1..(pass - 1) : closed[p]
  /\ pass' = pass + 1
  /\ wg' = [wg EXCEPT ![pass + 1] = 2]
  /\ tpc' = [tpc EXCEPT ![pass + 1] = "detect"]
  /\ spc' = [spc EXCEPT ![pass + 1] = "provision"]
  /\ ClearPasses({p \in 1..pass : Finished(p)}, pass + 1)
  /\ UNCHANGED <<envVars, sharedVars, closed, consumerVars>>

\* variant: a channel with one slot for the two tasks
CanSendOneSlot(p) == Len(errorChan[p]) < 1 /\ ~closed[p]

\* errorChan <- e on the buffered channel: blocks while the buffer is full
CanSend(p) == Len(errorChan[p]) < ErrorChanCap /\ ~closed[p]

\* ---- detectTransportProtocol ----
\* runtimeClient.Get of the transport secret: nil, NotFound, or another error
Get(sec) == (IF sec # NoSecret THEN {Nil} ELSE {ErrNotFound})
            \cup (IF fault = "Lookup" THEN {ErrLookup} ELSE {})

IsNotFound(err) == err = ErrNotFound

\* variant: every lookup error is taken for not-found
detectTransportProtocolSwallow(err) ==
  IF err = Nil THEN [proto |-> SecretTransporter, err |-> Nil]
  ELSE [proto |-> StrimziTransporter, err |-> Nil]

detectTransportProtocol(err) ==
  IF err = Nil THEN [proto |-> SecretTransporter, err |-> Nil]
  ELSE IF ~IsNotFound(err) THEN [proto |-> SecretTransporter, err |-> err]
  ELSE [proto |-> StrimziTransporter, err |-> Nil]

\* transport task, lines 63-77: detection, then the branch on the protocol
TDetect(p) ==
  /\ tpc[p] = "detect"
  /\ \E err \in Get(secret) :
       LET d == detectTransportProtocol(err) IN
       /\ lookups' = [lookups EXCEPT ![p] = @ + 1]
       /\ lookupRes' = [lookupRes EXCEPT ![p] = err]
       /\ proto' = [proto EXCEPT ![p] = d.proto]
       /\ detErr' = [detErr EXCEPT ![p] = d.err]
       /\ IF d.err # Nil
          THEN /\ CanSend(p)
               /\ errorChan' = [errorChan EXCEPT ![p] = Append(@, d.err)]
               /\ tSent' = [tSent EXCEPT ![p] = d.err]
               /\ wg' = [wg EXCEPT ![p] = @ - 1]
               /\ tpc' = [tpc EXCEPT ![p] = "done"]
          ELSE /\ tpc' = [tpc EXCEPT ![p] =
                    IF d.proto = SecretTransporter THEN "rt" ELSE "kafkaInit"]
               /\ UNCHANGED <<errorChan, tSent, wg>>
  /\ UNCHANGED <<envVars, sharedVars, closed, calls, effects, attempts,
                 elapsed, rtConn, rtErr, tStored, sVars, hostVars, consumerVars>>

\* ---- ReconcileTransport, lines 128-197 ----
\* what a successful call leaves behind
StepEffects(step, protocol) ==
  IF step = "Prereq" THEN {"metrics"}
  ELSE IF protocol = StrimziTransporter /\ step \in {"CreateUser", "CreateTopic",
            "GrantReadEvent", "GrantReadStatus", "GrantWriteSpec"}
       THEN {step}
       ELSE {}

\* variant: the managed transporter whatever the protocol
NewTransporterAlwaysStrimzi(protocol) == StrimziTransporter

\* the transporter built by the switch on transProtocol, lines 139-155
NewTransporter(protocol) ==
  IF protocol = StrimziTransporter THEN StrimziTransporter ELSE SecretTransporter

\* trans.GetConnCredential at the n-th attempt of a poll: the credential is
\* ready from attempt ready on; the managed transporter then returns the
\* credential of its kafka user, the bring-your-own transporter the fields of
\* the secret
StrimziCred == "strimziCred"
GetConnCredential(trans, n, ready, sec) ==
  IF n < ready \/ (trans = SecretTransporter /\ sec = NoSecret)
  THEN [conn |-> Nil, err |-> ErrNotReady]
  ELSE [conn |-> IF trans = StrimziTransporter THEN StrimziCred ELSE sec, err |-> Nil]

\* the condition function of the credential poll, lines 185-192
credentialCond(g) ==
  IF g.err # Nil THEN [done |-> FALSE, err |-> g.err]
  ELSE [done |-> TRUE, err |-> Nil]

\* return of ReconcileTransport into the transport task, lines 70-76 and 81-85:
\* the task sends the error; the bring-your-own branch goes on to store conn
RTReturn(p, conn, e) ==
  /\ rtConn' = [rtConn EXCEPT ![p] = conn]
  /\ rtErr' = [rtErr EXCEPT ![p] = e]
  /\ IF e # Nil
     THEN /\ CanSend(p)
          /\ errorChan' = [errorChan EXCEPT ![p] = Append(@, e)]
          /\ tSent' = [tSent EXCEPT ![p] = e]
     ELSE UNCHANGED <<errorChan, tSent>>
  /\ IF proto[p] = SecretTransporter
     THEN /\ tpc' = [tpc EXCEPT ![p] = "byoStore"]
          /\ UNCHANGED wg
     ELSE IF e # Nil
          THEN /\ tpc' = [tpc EXCEPT ![p] = "done"]
               /\ wg' = [wg EXCEPT ![p] = @ - 1]
          ELSE /\ tpc' = [tpc EXCEPT ![p] = "addCtl"]
               /\ UNCHANGED wg

\* union of the effects of the calls in a sequence
RECURSIVE EffectsOf(_, _)
EffectsOf(steps, trans) ==
  IF steps = <<>> THEN {}
  ELSE StepEffects(Head(steps), trans) \cup EffectsOf(Tail(steps), trans)

\* variant: the error of a failed call is kept, but the calls go on
RunStepsNoAbort(trans, n) ==
  [calls |-> RTSteps,
   effects |-> EffectsOf(RTSteps, trans),
   err |-> IF n = 0 THEN Nil ELSE ErrOf(RTSteps[n])]

\* lines 132-181 when the n-th call is the first to return an error (n = 0:
\* none does): every call is followed by `if err != nil { return nil, err }`
RunSteps(trans, n) ==
  IF n = 0
  THEN [calls |-> RTSteps, effects |-> EffectsOf(RTSteps, trans), err |-> Nil]
  ELSE [calls |-> SubSeq(RTSteps, 1, n),
        effects |-> EffectsOf(SubSeq(RTSteps, 1, n - 1), trans),
        err |-> ErrOf(RTSteps[n])]

\* ReconcileTransport from its entry to the credential poll or to the return
\* of the first error
RTRun(p) ==
  /\ tpc[p] = "rt"
  /\ LET trans == NewTransporter(proto[p]) IN
     \E n \in {0} \cup {i \in 1..Len(RTSteps) :
                          CanFail(RTSteps[i], trans) /\ fault = RTSteps[i]} :
       LET r == RunSteps(trans, n) IN
       /\ calls' = [calls EXCEPT ![p] = r.calls]
       /\ effects' = [effects EXCEPT ![p] = r.effects]
       /\ IF r.err = Nil
          THEN /\ tpc' = [tpc EXCEPT ![p] = "pollCond"]
               /\ UNCHANGED <<rtConn, rtErr, errorChan, tSent, wg>>
          ELSE RTReturn(p, Nil, r.err)
  /\ UNCHANGED <<envVars, sharedVars, closed, detVars, attempts, elapsed,
                 tStored, sVars, hostVars, consumerVars>>

\* wait.PollUntilContextTimeout(ctx, 2s, 10min, immediate = true, cond), lines
\* 184-196: the condition runs at once and then after every interval; the poll
\* ends when the condition reports done or an error, when ctx is cancelled or
\* when the timeout has elapsed.  Then config.SetTransporter(trans), which
\* changes no state of this model, and the return of conn and err.
TPollCond(p) ==
  /\ tpc[p] = "pollCond"
  /\ LET trans == NewTransporter(proto[p])
         g == GetConnCredential(trans, attempts[p] + 1, readyAt, secret)
         c == credentialCond(g) IN
     /\ attempts' = [attempts EXCEPT ![p] = @ + 1]
     /\ calls' = [calls EXCEPT ![p] = IF attempts[p] = 0 THEN Append(@, CredentialPoll) ELSE @]
     /\ IF c.err # Nil \/ c.done
        THEN RTReturn(p, g.conn, c.err)
        ELSE /\ tpc' = [tpc EXCEPT ![p] = "pollWait"]
             /\ rtConn' = [rtConn EXCEPT ![p] = g.conn]
             /\ UNCHANGED <<rtErr, errorChan, tSent, wg>>
  /\ UNCHANGED <<envVars, KafkaInit, kafkaConn, TransportConn, StorageConn,
                 watcherInstalls, closed, detVars, effects,
                 elapsed, tStored, sVars, hostVars, consumerVars>>

TPollWait(p) ==
  /\ tpc[p] = "pollWait"
  /\ IF cancelled
     THEN /\ RTReturn(p, rtConn[p], ErrCtxCanceled)
          /\ UNCHANGED elapsed
     ELSE /\ elapsed' = [elapsed EXCEPT ![p] = @ + PollInterval]
          /\ IF elapsed[p] + PollInterval >= PollTimeout
             THEN RTReturn(p, rtConn[p], ErrDeadline)
             ELSE /\ tpc' = [tpc EXCEPT ![p] = "pollCond"]
                  /\ UNCHANGED <<rtConn, rtErr, errorChan, tSent, wg>>
  /\ UNCHANGED <<envVars, KafkaInit, kafkaConn, TransportConn, StorageConn,
                 watcherInstalls, closed, detVars, calls, effects,
                 attempts, tStored, sVars, hostVars, consumerVars>>

\* ---- transport task after detection, lines 69-100 ----
\* line 74: r.MiddlewareConfig.TransportConn = conn, also when e # nil
TByoStore(p) ==
  /\ tpc[p] = "byoStore"
  /\ TransportConn' = rtConn[p]
  /\ tStored' = [tStored EXCEPT ![p] = rtConn[p]]
  /\ tpc' = [tpc EXCEPT ![p] = "done"]
  /\ wg' = [wg EXCEPT ![p] = @ - 1]
  /\ UNCHANGED <<envVars, KafkaInit, kafkaConn, StorageConn, watcherInstalls, errorChan, closed, detVars, rtVars, tSent, sVars, hostVars,
                 consumerVars>>

\* line 80: if !r.KafkaInit
TKafkaInit(p) ==
  /\ tpc[p] = "kafkaInit"
  /\ tpc' = [tpc EXCEPT ![p] = IF ~KafkaInit THEN "rt" ELSE "chkConn"]
  /\ UNCHANGED <<envVars, sharedVars, chanVars, detVars, calls, effects,
                 attempts, elapsed, rtConn, rtErr, tSent, tStored, sVars, hostVars,
                 consumerVars>>

\* addKafkaCRDController(r.Manager, r): adds the watcher to the manager or fails
addKafkaCRDController(installs) ==
  {[err |-> Nil, installs |-> installs + 1]}
  \cup (IF fault = "AddController"
        THEN {[err |-> ErrWatcher, installs |-> installs]} ELSE {})

\* lines 87-91
TAddCtl(p) ==
  /\ tpc[p] = "addCtl"
  /\ \E r \in addKafkaCRDController(watcherInstalls) :
       /\ watcherInstalls' = r.installs
       /\ IF r.err # Nil
          THEN /\ CanSend(p)
               /\ errorChan' = [errorChan EXCEPT ![p] = Append(@, r.err)]
               /\ tSent' = [tSent EXCEPT ![p] = r.err]
               /\ tpc' = [tpc EXCEPT ![p] = "done"]
               /\ wg' = [wg EXCEPT ![p] = @ - 1]
          ELSE /\ tpc' = [tpc EXCEPT ![p] = "setInit"]
               /\ UNCHANGED <<errorChan, tSent, wg>>
  /\ UNCHANGED <<envVars, KafkaInit, kafkaConn, TransportConn, StorageConn, closed, detVars, rtVars, tStored, sVars, hostVars,
                 consumerVars>>

\* line 93: r.KafkaInit = true
TSetInit(p) ==
  /\ tpc[p] = "setInit"
  /\ KafkaInit' = TRUE
  /\ tpc' = [tpc EXCEPT ![p] = "chkConn"]
  /\ UNCHANGED <<envVars, kafkaConn, TransportConn, StorageConn, watcherInstalls,
                 chanVars, detVars, rtVars, tSent, tStored,
                 sVars, hostVars, consumerVars>>

\* lines 95-99: without a kafka controller connection the task sends an error,
\* otherwise r.MiddlewareConfig.TransportConn = r.KafkaController.conn
TStoreConn(p) ==
  /\ tpc[p] = "chkConn"
  /\ IF kafkaConn = Nil
     THEN /\ CanSend(p)
          /\ errorChan' = [errorChan EXCEPT ![p] = Append(@, ErrKafkaNotReady)]
          /\ tSent' = [tSent EXCEPT ![p] = ErrKafkaNotReady]
          /\ UNCHANGED <<TransportConn, tStored>>
     ELSE /\ TransportConn' = kafkaConn
          /\ tStored' = [tStored EXCEPT ![p] = kafkaConn]
          /\ UNCHANGED <<errorChan, tSent>>
  /\ tpc' = [tpc EXCEPT ![p] = "done"]
  /\ wg' = [wg EXCEPT ![p] = @ - 1]
  /\ UNCHANGED <<envVars, KafkaInit, kafkaConn, StorageConn, watcherInstalls,
                 closed, detVars, rtVars, sVars, hostVars, consumerVars>>

\* ---- ReconcileStorage, lines 199-247 ----
ErrStorageSecret == "ErrStorageSecret"
ErrSubscription == "ErrCrunchySubscription"
ErrStatefulset == "ErrStatefulset"
ErrEnsureCrunchy == "ErrEnsureCrunchyPostgres"

\* return of ReconcileStorage into the storage task, lines 107-110
SReturn(p, conn, e) ==
  /\ sConn' = [sConn EXCEPT ![p] = conn]
  /\ spc' = [spc EXCEPT ![p] = "store"]
  /\ IF e # Nil
     THEN /\ CanSend(p)
          /\ errorChan' = [errorChan EXCEPT ![p] = Append(@, e)]
          /\ sSent' = [sSent EXCEPT ![p] = e]
     ELSE UNCHANGED <<errorChan, sSent>>

\* lines 202-227, the outcomes of ReconcileStorage before its poll: the
\* connection of the storage secret or the error of its lookup; with the
\* crunchy operator the error of EnsureCrunchyPostgresSubscription or of
\* EnsureCrunchyPostgres, or else the poll; without it the connection or the
\* error of InitPostgresByStatefulset
StorageBeforePoll(found, crunchy) ==
  IF found
  THEN {[poll |-> FALSE, conn |-> "pgSecretConn", err |-> Nil],
        [poll |-> FALSE, conn |-> Nil, err |-> ErrStorageSecret]}
  ELSE (IF crunchy
        THEN {[poll |-> FALSE, conn |-> Nil, err |-> ErrSubscription],
              [poll |-> FALSE, conn |-> Nil, err |-> ErrEnsureCrunchy],
              [poll |-> TRUE, conn |-> Nil, err |-> Nil]}
        ELSE {[poll |-> FALSE, conn |-> "pgStatefulsetConn", err |-> Nil],
              [poll |-> FALSE, conn |-> Nil, err |-> ErrStatefulset]})

SProvision(p) ==
  /\ spc[p] = "provision"
  /\ \E o \in StorageBeforePoll(storageSecret, installCrunchy) :
       IF o.poll
       THEN /\ spc' = [spc EXCEPT ![p] = "pollCond"]
            /\ UNCHANGED <<sConn, errorChan, sSent>>
       ELSE SReturn(p, o.conn, o.err)
  /\ UNCHANGED <<envVars, sharedVars, closed, wg, tVars, sElapsed, sStored, hostVars,
                 consumerVars>>

\* lines 231-246: the poll for the crunchy postgres connection; its condition
\* never reports an error, and the error of the poll is not returned
SPollCond(p) ==
  /\ spc[p] = "pollCond"
  /\ \E r \in {"ensureFailed", "getFailed", "ok"} :
       IF r = "ok"
       THEN SReturn(p, "pgCrunchyConn", Nil)
       ELSE /\ spc' = [spc EXCEPT ![p] = "pollWait"]
            /\ sConn' = [sConn EXCEPT ![p] = Nil]
            /\ UNCHANGED <<errorChan, sSent>>
  /\ UNCHANGED <<envVars, sharedVars, closed, wg, tVars, sElapsed, sStored, hostVars,
                 consumerVars>>

SPollWait(p) ==
  /\ spc[p] = "pollWait"
  /\ IF cancelled
     THEN /\ SReturn(p, sConn[p], Nil)
          /\ UNCHANGED sElapsed
     ELSE /\ sElapsed' = [sElapsed EXCEPT ![p] = @ + PollInterval]
          /\ IF sElapsed[p] + PollInterval >= PollTimeout
             THEN SReturn(p, sConn[p], Nil)
             ELSE /\ spc' = [spc EXCEPT ![p] = "pollCond"]
                  /\ UNCHANGED <<sConn, errorChan, sSent>>
  /\ UNCHANGED <<envVars, sharedVars, closed, wg, tVars, sStored, hostVars, consumerVars>>

\* The wait of wait.PollUntilContextTimeout between two runs of a condition
\* that left its poll waiting (lines 184 and 231).  The condition of the
\* credential poll returns its error (line 189), so that poll never waits and
\* only the connection poll of ReconcileStorage gets here.
PollWait(p) ==
  \E task \in {"transport", "storage"} :
    IF task = "transport" THEN TPollWait(p) ELSE SPollWait(p)

\* line 111: r.MiddlewareConfig.StorageConn = conn, also when e # nil
SStore(p) ==
  /\ spc[p] = "store"
  /\ StorageConn' = sConn[p]
  /\ sStored' = [sStored EXCEPT ![p] = sConn[p]]
  /\ spc' = [spc EXCEPT ![p] = "done"]
  /\ wg' = [wg EXCEPT ![p] = @ - 1]
  /\ sElapsed' = [sElapsed EXCEPT ![p] = 0]
  /\ UNCHANGED <<envVars, KafkaInit, kafkaConn, TransportConn, watcherInstalls,
                 errorChan, closed, tVars, sConn, sSent, hostVars, consumerVars>>

\* ---- environment ----
\* the kafka controller started by the installed watcher gets its connection
KafkaControllerReady ==
  /\ watcherInstalls > 0
  /\ kafkaConn = Nil
  /\ kafkaConn' = "kafkaConn"
  /\ UNCHANGED <<envVars, KafkaInit, TransportConn, StorageConn, watcherInstalls, chanVars, tVars, sVars, hostVars,
                 consumerVars>>

\* the manager's context is cancelled; only a poll that waits reads ctx, so
\* the cancellation is taken at a moment when some poll waits
Cancel ==
  /\ ~cancelled
  /\ \E p \in Passes : tpc[p] = "pollWait" \/ spc[p] = "pollWait"
  /\ cancelled' = TRUE
  /\ UNCHANGED <<secret, installCrunchy, storageSecret, fault, readyAt, sharedVars,
                 chanVars, tVars, sVars, hostVars, consumerVars>>

\* ---- closer goroutine, lines 114-117: wg.Wait(); close(errorChan) ----
Closer(p) ==
  /\ p <= pass
  /\ wg[p] = 0
  /\ ~closed[p]
  /\ closed' = [closed EXCEPT ![p] = TRUE]
  /\ IF p < pass
     THEN ClearPasses({p}, 0)
     ELSE UNCHANGED <<errorChan, result, detVars, rtVars, tSent, tStored,
                      sElapsed, sConn, sSent, sStored, startTConn>>
  /\ UNCHANGED <<envVars, sharedVars, wg, tpc, spc, pass, consumerVars>>

\* ---- result loop, lines 119-125 ----
\* fmt.Errorf("middleware not ready, Error: %v", err)
Wrap(err) == <<"middleware not ready", err>>

\* variant: the error without the requeue delay
LoopResultNoRequeue(err) ==
  [state |-> "returned", requeueAfter |-> 0, err |-> Wrap(err)]

\* what the body of the loop returns for a received error, lines 120-122
LoopResult(err) ==
  [state |-> "returned", requeueAfter |-> RequeueAfter, err |-> Wrap(err)]

ResultLoop(p) ==
  /\ p = pass
  /\ result[p].state = "running"
  /\ IF errorChan[p] # <<>>
     THEN LET err == Head(errorChan[p]) IN
          /\ errorChan' = [errorChan EXCEPT ![p] = Tail(@)]
          /\ IF err # Nil
             THEN result' = [result EXCEPT ![p] = LoopResult(err)]
             ELSE UNCHANGED result
     ELSE /\ closed[p]
          /\ result' = [result EXCEPT ![p] =
                [state |-> "returned", requeueAfter |-> 0, err |-> Nil]]
          /\ UNCHANGED errorChan
  /\ UNCHANGED <<envVars, sharedVars, closed, wg, tVars, sVars, pass, startTConn,
                 consumerVars>>

\* ======================= the generic consumer =======================
\* deploy/deploy_hub_of_hubs_agent.sh, lines 62-263: package consumer
\* ---- bounds of the consumer ----
MaxConsumers == 2       \* NewGenericConsumer calls that return a consumer
MaxRecords == 2         \* rows of the offset store
MaxPlain == 1           \* messages without chunk metadata in the pool
MaxPayload == 3         \* bytes of the payload that is sent in chunks

KafkaType == "kafka"
ChanType == "chan"
TransportTypes == {KafkaType, ChanType, "bogus"}
DefaultTopic == "event"
TopicLists == {<<>>, <<"event">>, <<"status">>}
KafkaClusterIdentity == "cluster-x"
ChanClusterIdentity == "kafka-cluster-chan"
ErrConfluentReceiver == "ErrConfluentReceiver"
ErrNewClient == "ErrNewClient"
ErrInvalidType(tranType) == "transport-type - " \o tranType \o " is not a valid option"
NilMap == [isNil |-> TRUE, m |-> <<>>]
KafkaReceiver == [kind |-> KafkaType, id |-> 0]
MsgIds == 1..(MaxPlain + MaxPayload)

\* state of the receive loop before StartReceiver
ReceiveIdle ==
  /\ ctxCancelled = FALSE
  /\ pool = {}
  /\ inbox = <<>>
  /\ hpc = [i \in MsgIds |-> "none"]
  /\ assembler = <<>>
  /\ eventChan = <<>>
  /\ delivered = <<>>
  /\ forwards = [i \in MsgIds |-> 0]
  /\ eventData = [i \in MsgIds |-> <<>>]
  /\ outcome = [i \in MsgIds |-> "none"]
  /\ acks = [i \in MsgIds |-> <<>>]
  /\ pollDone = FALSE

StartIdle ==
  /\ startPc = "idle"
  /\ startOf = 0
  /\ queried = "no"
  /\ positions = <<>>
  /\ receiveContext = <<>>
  /\ startErr = Nil

\* no consumer has been constructed
ConsumerIdle ==
  /\ Extends = NilMap
  /\ chanCount = 0
  /\ consumers = <<>>
  /\ newErr = Nil
  /\ transportID = ""
  /\ StartIdle
  /\ ReceiveIdle

\* ---- NewGenericConsumer, lines 108-160 ----
\* lines 128-131: the key of the shared channel
ConsumerTopic(topics) == IF Len(topics) > 0 THEN topics[1] ELSE DefaultTopic

\* variant: a channel is made at every construction
ChanReceiverAlwaysNew(ext, n, topic) ==
  LET m == IF ext.isNil THEN <<>> ELSE ext.m IN
  [Extends |-> [isNil |-> FALSE,
                m |-> [t \in DOMAIN m \cup {topic} |-> IF t = topic THEN n + 1 ELSE m[t]]],
   chanCount |-> n + 1,
   receiver |-> [kind |-> ChanType, id |-> n + 1]]

\* lines 125-135: the map is made when it is nil, gochan.New() only when the
\* topic has no channel yet, and the receiver is the channel of the topic
ChanReceiver(ext, n, topic) ==
  LET m == IF ext.isNil THEN <<>> ELSE ext.m IN
  IF topic \in DOMAIN m
  THEN [Extends |-> [isNil |-> FALSE, m |-> m], chanCount |-> n,
        receiver |-> [kind |-> ChanType, id |-> m[topic]]]
  ELSE [Extends |-> [isNil |-> FALSE,
                     m |-> [t \in DOMAIN m \cup {topic} |-> IF t = topic THEN n + 1 ELSE m[t]]],
        chanCount |-> n + 1,
        receiver |-> [kind |-> ChanType, id |-> n + 1]]

\* the consumer of lines 146-157 after the options are applied
NewConsumer(receiver, identity, topics, enableOffset) ==
  [receiver |-> receiver, clusterIdentity |-> identity,
   enableDatabaseOffset |-> enableOffset, consumeTopics |-> topics]

\* failure: the call of the construction that returns an error, or "none"
NewGenericConsumer(tranType, topics, enableOffset, failure) ==
  /\ Len(consumers) < MaxConsumers
  /\ IF tranType = KafkaType
     THEN /\ UNCHANGED <<Extends, chanCount>>
          /\ IF failure = "none"
             THEN /\ consumers' = Append(consumers,
                        NewConsumer(KafkaReceiver, KafkaClusterIdentity, topics, enableOffset))
                  /\ newErr' = Nil
                  /\ transportID' = KafkaClusterIdentity
             ELSE /\ newErr' = (IF failure = "receiver" THEN ErrConfluentReceiver
                                ELSE ErrNewClient)
                  /\ UNCHANGED <<consumers, transportID>>
     ELSE IF tranType = ChanType
     THEN LET r == ChanReceiver(Extends, chanCount, ConsumerTopic(topics)) IN
          /\ Extends' = r.Extends
          /\ chanCount' = r.chanCount
          /\ IF failure = "client"
             THEN /\ newErr' = ErrNewClient
                  /\ UNCHANGED <<consumers, transportID>>
             ELSE /\ consumers' = Append(consumers,
                        NewConsumer(r.receiver, ChanClusterIdentity, topics, enableOffset))
                  /\ newErr' = Nil
                  /\ transportID' = ChanClusterIdentity
     ELSE /\ newErr' = ErrInvalidType(tranType)
          /\ UNCHANGED <<Extends, chanCount, consumers, transportID>>
  /\ UNCHANGED <<startVars, receiveVars, middlewareVars>>

\* ---- getInitOffset, lines 212-235 ----
\* rows of the offset store: topic name, owner identity, payload; a payload is
\* the json of an EventPosition or is not decodable
AllRows == <<[name |-> "status.hub1", owner |-> KafkaClusterIdentity, payload |-> <<"json", 0, 42>>],
             [name |-> "status.hub2", owner |-> KafkaClusterIdentity, payload |-> <<"json", 1, 7>>],
             [name |-> "status.hub1", owner |-> "cluster-y", payload |-> <<"json", 0, 9>>],
             [name |-> "spec", owner |-> KafkaClusterIdentity, payload |-> <<"json", 0, 5>>],
             [name |-> "status.hub3", owner |-> KafkaClusterIdentity, payload |-> <<"bad">>],
             [name |-> "status.hub1", owner |-> ChanClusterIdentity, payload |-> <<"json", 2, 3>>]>>
StatusNames == {"status.hub1", "status.hub2", "status.hub3"}
ErrQuery == "ErrQuery"
ErrUnmarshal == "ErrUnmarshal"

\* the contents of the store: up to MaxRecords of the rows, in their order
RowsAt(S) ==
  LET F[i \in 0..Len(AllRows)] ==
        IF i = 0 THEN <<>>
        ELSE IF i \in S THEN Append(F[i - 1], AllRows[i]) ELSE F[i - 1]
  IN F[Len(AllRows)]
Stores == {RowsAt(S) : S \in {T \in SUBSET (1..Len(AllRows)) : Cardinality(T) <= MaxRecords}}

\* lines 215-217: the rows whose name matches "^status*" and whose
\* ownerIdentity is not empty and is the identity of the consumer
Find(store, identity) ==
  LET Matches(r) == r.name \in StatusNames /\ r.owner # "" /\ r.owner = identity
  IN SelectSeq(store, Matches)

\* json.Unmarshal(pos.Payload, &kafkaPosition), line 224
Unmarshal(payload) ==
  IF payload[1] = "json"
  THEN [err |-> Nil, Partition |-> payload[2], Offset |-> payload[3]]
  ELSE [err |-> ErrUnmarshal, Partition |-> 0, Offset |-> 0]

\* variant: a record that cannot be decoded is skipped
RECURSIVE DecodePositionsSkip(_, _)
DecodePositionsSkip(rows, acc) ==
  IF rows = <<>> THEN [err |-> Nil, offsets |-> acc]
  ELSE LET k == Unmarshal(Head(rows).payload) IN
       IF k.err # Nil THEN DecodePositionsSkip(Tail(rows), acc)
       ELSE DecodePositionsSkip(Tail(rows),
              Append(acc, [Topic |-> Head(rows).name, Partition |-> k.Partition,
                           Offset |-> k.Offset]))

\* lines 221-234: one kafka.TopicPartition per record; the first record that
\* cannot be decoded ends the loop with its error
RECURSIVE DecodePositions(_, _)
DecodePositions(rows, acc) ==
  IF rows = <<>> THEN [err |-> Nil, offsets |-> acc]
  ELSE LET k == Unmarshal(Head(rows).payload) IN
       IF k.err # Nil THEN [err |-> k.err, offsets |-> <<>>]
       ELSE DecodePositions(Tail(rows),
              Append(acc, [Topic |-> Head(rows).name, Partition |-> k.Partition,
                           Offset |-> k.Offset]))

getInitOffset(store, queryFails, identity) ==
  IF queryFails THEN [err |-> ErrQuery, offsets |-> <<>>, rows |-> <<>>]
  ELSE LET rows == Find(store, identity)
           d == DecodePositions(rows, <<>>)
       IN [err |-> d.err, offsets |-> d.offsets, rows |-> rows]

\* ---- GenericConsumer.Start, lines 171-206 ----
ErrStartReceiver(err) == "failed to start Receiver: " \o err
ErrOpenInbound == "ErrOpenInbound"

\* lines 172-182 of Start for consumer c: the offsets of the store, when the
\* recovery is enabled, go into receiveContext
StartOffsets(c) ==
  /\ startPc = "idle"
  /\ c \in 1..Len(consumers)
  /\ startOf' = c
  /\ IF consumers[c].enableDatabaseOffset
     THEN \E store \in Stores, queryFails \in BOOLEAN :
            LET r == getInitOffset(store, queryFails, consumers[c].clusterIdentity) IN
            /\ queried' = (IF queryFails THEN "failed" ELSE "done")
            /\ positions' = r.rows
            /\ IF r.err # Nil
               THEN /\ startErr' = r.err
                    /\ startPc' = "returned"
                    /\ UNCHANGED receiveContext
               ELSE /\ receiveContext' = r.offsets
                    /\ startPc' = "startReceiver"
                    /\ UNCHANGED startErr
     ELSE /\ startPc' = "startReceiver"
          /\ UNCHANGED <<queried, positions, receiveContext, startErr>>
  /\ UNCHANGED <<constructVars, receiveVars, middlewareVars>>

\* line 184 and lines 201-203: c.client.StartReceiver(receiveContext, fn)
\* starts the receive loop with the positions of receiveContext, or returns an
\* error that Start wraps
StartReceiver ==
  /\ startPc = "startReceiver"
  /\ \E opens \in BOOLEAN :
       IF opens
       THEN /\ startPc' = "receiving"
            /\ UNCHANGED startErr
       ELSE /\ startPc' = "returned"
            /\ startErr' = ErrStartReceiver(ErrOpenInbound)
  /\ UNCHANGED <<constructVars, startOf, queried, positions, receiveContext,
                 receiveVars, middlewareVars>>

\* state of the middleware while only the consumer is looked at
MiddlewareIdle ==
  /\ Init
  /\ secret = NoSecret /\ installCrunchy = FALSE /\ storageSecret = FALSE
  /\ fault = "none"

ConsumerInit ==
  /\ MiddlewareIdle
  /\ Extends \in {NilMap, [isNil |-> FALSE, m |-> <<>>]}
  /\ chanCount = 0
  /\ consumers = <<>>
  /\ newErr = Nil
  /\ transportID = ""
  /\ StartIdle
  /\ ReceiveIdle

ConsumerNext ==
  \/ \E tranType \in TransportTypes, topics \in TopicLists, enableOffset \in BOOLEAN,
        failure \in {"none", "receiver", "client"} :
       NewGenericConsumer(tranType, topics, enableOffset, failure)
  \/ \E c \in 1..MaxConsumers : StartOffsets(c)
  \/ StartReceiver

ConsumerSpec == ConsumerInit /\ [][ConsumerNext]_vars

\* ---- the receive loop, lines 184-200 ----
\* A message: id, chunk metadata (group key, index, total; NoGroup without
\* chunk metadata) and payload, a sequence of bytes.
NoGroup == ""
Group == "g"
Payload == [b \in 1..MaxPayload |-> b]
Min(a, b) == IF a < b THEN a ELSE b
PlainMessage(n) ==
  [id |-> n, group |-> NoGroup, index |-> 0, total |-> 0, data |-> <<MaxPayload + n>>]
\* the sender's split of Payload into chunks of `size` bytes, indices from 0
TotalChunks(size) == (MaxPayload + size - 1) \div size
ChunkMessage(size, index) ==
  [id |-> MaxPlain + index + 1, group |-> Group, index |-> index,
   total |-> TotalChunks(size),
   data |-> SubSeq(Payload, index * size + 1, Min((index + 1) * size, MaxPayload))]
Pools ==
  {{PlainMessage(n) : n \in 1..plain}
     \cup (IF size = 0 THEN {}
           ELSE {ChunkMessage(size, index) : index \in 0..(TotalChunks(size) - 1)}) :
   plain \in 0..MaxPlain, size \in 0..MaxPayload}
MessageOf(i) == CHOOSE m \in pool : m.id = i
Received(i) == \E k \in 1..Len(inbox) : inbox[k] = i

ResultACK == "ACK"
ResultNACK == "NACK"

\* c.assembler.messageChunk(event): the chunk metadata of the event, if any
messageChunk(m) == [isChunk |-> m.group # NoGroup, chunk |-> m]

\* variant: the loop over the indices starts at 1
RECURSIVE ConcatFromOne(_, _, _)
ConcatFromOne(chunks, index, total) ==
  IF index + 1 >= total THEN <<>>
  ELSE chunks[index + 1] \o ConcatFromOne(chunks, index + 1, total)

\* the recorded chunks concatenated in the order of their indices
RECURSIVE Concat(_, _, _)
Concat(chunks, index, total) ==
  IF index >= total THEN <<>>
  ELSE chunks[index] \o Concat(chunks, index + 1, total)

\* c.assembler.assemble(chunk): records the bytes at the index in the state of
\* the group, which is made when there is none; when the number of recorded
\* indices equals total, the state is removed and the payload returned
assemble(asm, chunk) ==
  LET old == IF chunk.group \in DOMAIN asm THEN asm[chunk.group] ELSE <<>>
      new == [i \in DOMAIN old \cup {chunk.index} |->
                IF i = chunk.index THEN chunk.data ELSE old[i]]
  IN IF Cardinality(DOMAIN new) = chunk.total
     THEN [assembler |-> [g \in DOMAIN asm \ {chunk.group} |-> asm[g]],
           complete |-> TRUE, payload |-> Concat(new, 0, chunk.total)]
     ELSE [assembler |-> [g \in DOMAIN asm \cup {chunk.group} |->
                            IF g = chunk.group THEN new ELSE asm[g]],
           complete |-> FALSE, payload |-> <<>>]

\* the poll goroutine of the client (client.WithPollGoroutines(1), line 141)
\* receives a message and invokes the handler for it in a goroutine of its
\* own: the client is made without client.WithBlockingCallback(), so it does
\* not wait for the handler before it receives the next message.  The handler
\* runs lines 185-188 and comes to the send of line 189 or to assemble.
Receive(i) ==
  /\ startPc = "receiving"
  /\ ~pollDone
  /\ \E m \in pool : m.id = i
  /\ ~Received(i)
  /\ inbox' = Append(inbox, i)
  /\ eventData' = [eventData EXCEPT ![i] = MessageOf(i).data]
  /\ hpc' = [hpc EXCEPT ![i] =
               IF messageChunk(MessageOf(i)).isChunk THEN "assemble" ELSE "send"]
  /\ UNCHANGED <<ctxCancelled, pool, assembler, eventChan, delivered, forwards,
                 outcome, acks, pollDone, constructVars, startVars, middlewareVars>>

\* variant: a message whose payload could not be set is not acknowledged
HandlerResultNackOnError(o) == IF o = "setDataFailed" THEN ResultNACK ELSE ResultACK

\* return ceprotocol.ResultACK, lines 190 and 199
HandlerResult(o) == ResultACK

\* variant: the event is forwarded although its payload could not be set
ForwardsAssembledAlways(complete, setDataErr) == complete

\* lines 192-198: the event is sent when the assembly is complete and
\* event.SetData returned no error
ForwardsAssembled(complete, setDataErr) == complete /\ ~setDataErr

\* lines 192-199: assemble, and event.SetData(cloudevents.ApplicationJSON,
\* payload) when a payload came back; without an event to send the handler
\* returns
Assemble(i) ==
  /\ hpc[i] = "assemble"
  /\ LET r == assemble(assembler, messageChunk(MessageOf(i)).chunk) IN
     /\ assembler' = r.assembler
     /\ \E setDataErr \in (IF r.complete THEN BOOLEAN ELSE {FALSE}) :
          /\ IF ForwardsAssembled(r.complete, setDataErr)
             THEN /\ hpc' = [hpc EXCEPT ![i] = "send"]
                  /\ UNCHANGED acks
             ELSE /\ hpc' = [hpc EXCEPT ![i] = "done"]
                  /\ acks' = [acks EXCEPT ![i] = Append(@, HandlerResult(
                                 IF r.complete THEN "setDataFailed" ELSE "incomplete"))]
          /\ eventData' = [eventData EXCEPT ![i] =
                            IF r.complete /\ ~setDataErr THEN r.payload ELSE @]
          /\ outcome' = [outcome EXCEPT ![i] =
                          IF ~r.complete THEN "incomplete"
                          ELSE IF setDataErr THEN "setDataFailed" ELSE "complete"]
  /\ UNCHANGED <<ctxCancelled, pool, inbox, eventChan, delivered, forwards,
                 pollDone, constructVars, startVars, middlewareVars>>

\* c.eventChan <- &event, lines 189 and 196, on make(chan *cloudevents.Event)
\* (line 150): the handler waits in the send until a reader takes the event
Send(i) ==
  /\ hpc[i] = "send"
  /\ hpc' = [hpc EXCEPT ![i] = "blocked"]
  /\ eventChan' = Append(eventChan, i)
  /\ forwards' = [forwards EXCEPT ![i] = @ + 1]
  /\ UNCHANGED <<ctxCancelled, pool, inbox, assembler, delivered, eventData, outcome,
                 acks, pollDone, constructVars, startVars, middlewareVars>>

\* a reader of EventChan() (lines 208-210) receives from the channel: it takes
\* the event of the handler that has waited longest
Take ==
  /\ eventChan # <<>>
  /\ delivered' = Append(delivered, [id |-> Head(eventChan), data |-> eventData[Head(eventChan)]])
  /\ eventChan' = Tail(eventChan)
  /\ hpc' = [hpc EXCEPT ![Head(eventChan)] = "return"]
  /\ UNCHANGED <<ctxCancelled, pool, inbox, assembler, forwards, eventData, outcome,
                 acks, pollDone, constructVars, startVars, middlewareVars>>

\* the handler returns its result, with which the client finishes the message
Return(i) ==
  /\ hpc[i] = "return"
  /\ hpc' = [hpc EXCEPT ![i] = "done"]
  /\ acks' = [acks EXCEPT ![i] = Append(@, HandlerResult(outcome[i]))]
  /\ UNCHANGED <<ctxCancelled, pool, inbox, assembler, eventChan, delivered, forwards,
                 eventData, outcome, pollDone, constructVars, startVars, middlewareVars>>

\* the caller of Start cancels ctx
CancelCtx ==
  /\ startPc = "receiving"
  /\ ~ctxCancelled
  /\ ctxCancelled' = TRUE
  /\ UNCHANGED <<pool, inbox, hpc, assembler, eventChan, delivered, forwards,
                 eventData, outcome, acks, pollDone, constructVars, startVars,
                 middlewareVars>>

\* the receive of the poll goroutine ends when ctx is done, and with it the
\* poll goroutine
PollExit ==
  /\ startPc = "receiving"
  /\ ctxCancelled
  /\ ~pollDone
  /\ pollDone' = TRUE
  /\ UNCHANGED <<ctxCancelled, pool, inbox, hpc, assembler, eventChan, delivered,
                 forwards, eventData, outcome, acks, constructVars, startVars,
                 middlewareVars>>

\* StartReceiver returns when the poll goroutine and the handlers it invoked
\* have ended; lines 201-205: Start returns nil
StartReturn ==
  /\ startPc = "receiving"
  /\ pollDone
  /\ \A i \in MsgIds : hpc[i] \in {"none", "done"}
  /\ startPc' = "returned"
  /\ UNCHANGED <<startOf, queried, positions, receiveContext, startErr,
                 receiveVars, constructVars, middlewareVars>>

\* a consumer of the channel protocol whose Start has come to the receive loop
ReceiveInit ==
  /\ MiddlewareIdle
  /\ Extends = [isNil |-> FALSE, m |-> [t \in {DefaultTopic} |-> 1]]
  /\ chanCount = 1
  /\ consumers = <<NewConsumer([kind |-> ChanType, id |-> 1], ChanClusterIdentity, <<>>, FALSE)>>
  /\ newErr = Nil
  /\ transportID = ChanClusterIdentity
  /\ startPc = "receiving"
  /\ startOf = 1
  /\ queried = "no"
  /\ positions = <<>>
  /\ receiveContext = <<>>
  /\ startErr = Nil
  /\ ctxCancelled = FALSE
  /\ pool \in Pools
  /\ inbox = <<>>
  /\ hpc = [i \in MsgIds |-> "none"]
  /\ assembler = <<>>
  /\ eventChan = <<>>
  /\ delivered = <<>>
  /\ forwards = [i \in MsgIds |-> 0]
  /\ eventData = [i \in MsgIds |-> <<>>]
  /\ outcome = [i \in MsgIds |-> "none"]
  /\ acks = [i \in MsgIds |-> <<>>]
  /\ pollDone = FALSE

ReceiveNext ==
  \/ \E i \in MsgIds : Receive(i)
  \/ \E i \in MsgIds : Assemble(i)
  \/ \E i \in MsgIds : Send(i)
  \/ Take
  \/ \E i \in MsgIds : Return(i)
  \/ CancelCtx
  \/ PollExit
  \/ StartReturn

ReceiveSpec == ReceiveInit /\ [][ReceiveNext]_vars

\* the goroutines of the consumer are scheduled; a reader of EventChan() and
\* the caller's cancellation are not in the hands of the consumer
ReceiveFairSpec ==
  /\ ReceiveSpec
  /\ \A i \in MsgIds : WF_vars(Assemble(i)) /\ WF_vars(Send(i)) /\ WF_vars(Return(i))
  /\ WF_vars(PollExit)
  /\ WF_vars(StartReturn)

Next ==
  \/ StartPass
  \/ \E p \in Passes : TDetect(p)
  \/ \E p \in Passes : TKafkaInit(p)
  \/ \E p \in Passes : RTRun(p)
  \/ \E p \in Passes : TPollCond(p)
  \/ \E p \in Passes : TByoStore(p)
  \/ \E p \in Passes : TAddCtl(p)
  \/ \E p \in Passes : TSetInit(p)
  \/ \E p \in Passes : TStoreConn(p)
  \/ \E p \in Passes : SProvision(p)
  \/ \E p \in Passes : SPollCond(p)
  \/ \E p \in Passes : PollWait(p)
  \/ \E p \in Passes : SStore(p)
  \/ KafkaControllerReady
  \/ Cancel
  \/ \E p \in Passes : Closer(p)
  \/ \E p \in Passes : ResultLoop(p)

\* the operator after construction: no pass started, no consumer constructed
OperatorInit == Init /\ ConsumerIdle

Spec == OperatorInit /\ [][Next]_vars

\* ======================= properties =======================
Returned(p) == result[p].state = "returned"
Ready(p) == Returned(p) /\ result[p].requeueAfter = 0 /\ result[p].err = Nil
IsPrefix(a, b) == Len(a) <= Len(b) /\ SubSeq(b, 1, Len(a)) = a
Last(a) == a[Len(a)]
\* ReconcileTransport of pass p has returned from its credential poll
WaitReturned(p) == attempts[p] >= 1 /\ tpc[p] \notin {"pollCond", "pollWait"}

\* C1: a pass reports readiness (zero requeue delay, nil error) only when both
\* tasks have finished and neither has sent an error; once a task has sent an
\* error the returned result is a non-nil error with RequeueAfter = 5s; and a
\* non-nil error never comes with a zero requeue delay.
C1_ReadyOnlyIfBothSucceeded ==
  \A p \in Passes : Returned(p) =>
    /\ Ready(p) => (tpc[p] = "done" /\ spc[p] = "done" /\ tSent[p] = Nil /\ sSent[p] = Nil)
    /\ (tSent[p] # Nil \/ sSent[p] # Nil) =>
         (result[p].err # Nil /\ result[p].requeueAfter = RequeueAfter)
    /\ result[p].err # Nil => result[p].requeueAfter # 0

\* a pass has returned a requeue after the storage task sent an error, and the
\* transport task sent none
C1_Witness ==
  \E p \in Passes : Returned(p) /\ sSent[p] # Nil /\ tSent[p] = Nil /\ tpc[p] = "done"
                    /\ result[p].err = Wrap(sSent[p])

\* C2: whenever ReconcileMiddleware has returned, both tasks of that pass have
\* finished.
C2_ReturnsAfterBothTasks ==
  \A p \in Passes : Returned(p) => (tpc[p] = "done" /\ spc[p] = "done")

\* C3: when in a pass the transport task succeeds and the storage task fails,
\* the pass returns a requeue, and the credential the transport task stored in
\* TransportConn is what TransportConn holds when the next pass starts (for the
\* latest pass: at any moment from which the host may start the next pass).
C3_CredentialRetained ==
  \A p \in Passes :
    (Returned(p) /\ tpc[p] = "done" /\ tSent[p] = Nil /\ spc[p] = "done" /\ sSent[p] # Nil) =>
      /\ result[p].err # Nil /\ result[p].requeueAfter = RequeueAfter
      /\ tStored[p] \notin {"none", Nil}
      /\ IF p < pass THEN startTConn[p + 1] = tStored[p]
         ELSE TransportConn = tStored[p]

\* C4: when the credential getter is not ready on the first attempts and ready
\* at a later attempt that lies before the timeout, and ctx is not cancelled,
\* the credential wait returns the credential and no error, at that attempt.
C4_FailedAttemptDoesNotAbort ==
  \A p \in Passes :
    (WaitReturned(p) /\ readyAt \in 2..MaxPolls /\ ~cancelled) =>
      (rtErr[p] = Nil /\ rtConn[p] # Nil /\ attempts[p] = readyAt)

\* C5: when the credential getter is never ready and ctx is never cancelled,
\* the credential wait returns an error only when the timeout has elapsed.
C5_ErrorOnlyAfterTimeout ==
  \A p \in Passes :
    (WaitReturned(p) /\ readyAt > MaxPolls /\ ~cancelled /\ rtErr[p] # Nil) =>
      elapsed[p] >= PollTimeout

\* C6: the detection makes one lookup; it returns the bring-your-own protocol
\* with no error exactly when the lookup found the secret (and then the secret
\* exists); it returns the managed protocol with no error when the lookup
\* reports not-found; any other lookup error is returned as it is, the task
\* sends it, and no step of ReconcileTransport runs in that task.
C6_Detection ==
  \A p \in Passes :
    /\ lookups[p] <= 1
    /\ lookups[p] = 1 =>
         /\ (proto[p] = SecretTransporter /\ detErr[p] = Nil) <=> lookupRes[p] = Nil
         /\ (proto[p] = SecretTransporter /\ detErr[p] = Nil) => secret # NoSecret
         /\ lookupRes[p] = ErrNotFound =>
              (proto[p] = StrimziTransporter /\ detErr[p] = Nil /\ secret = NoSecret)
         /\ lookupRes[p] \notin {Nil, ErrNotFound} =>
              /\ detErr[p] = lookupRes[p]
              /\ tSent[p] = lookupRes[p]
              /\ tpc[p] = "done"
              /\ calls[p] = <<>> /\ effects[p] = {} /\ attempts[p] = 0
              /\ tStored[p] = "none"

\* a detection whose lookup failed with an error other than not-found
C6_Witness ==
  \E p \in Passes : lookups[p] = 1 /\ lookupRes[p] = ErrLookup /\ Returned(p)

\* C7: the calls of ReconcileTransport come in the fixed order prerequisites,
\* CreateUser, GenerateClusterTopic, CreateTopic, GrantRead(event),
\* GrantRead(status), GrantWrite(spec), credential poll; when a call fails it is
\* the last one made, ReconcileTransport returns the error of that call, and
\* what the earlier calls created is still there.
ClaimedOrder == <<"Prereq", "CreateUser", "GenerateClusterTopic", "CreateTopic",
                  "GrantReadEvent", "GrantReadStatus", "GrantWriteSpec", CredentialPoll>>
IsClaimedStep(step) == \E i \in 1..Len(ClaimedOrder) : ClaimedOrder[i] = step
PollErrors == {ErrNotReady, ErrCtxCanceled, ErrDeadline}

C7_FixedOrderAbortOnFailure ==
  \A p \in Passes :
    /\ IsPrefix(SelectSeq(calls[p], IsClaimedStep), ClaimedOrder)
    /\ tpc[p] = "pollCond" => calls[p] = RTSteps
    /\ rtErr[p] # Nil =>
         /\ calls[p] # <<>>
         /\ tpc[p] \notin {"rt", "pollCond", "pollWait"}
         /\ IF Last(calls[p]) = CredentialPoll
            THEN rtErr[p] \in PollErrors
            ELSE rtErr[p] = ErrOf(Last(calls[p]))
         /\ effects[p] = EffectsOf(SubSeq(calls[p], 1, Len(calls[p]) - 1),
                                   NewTransporter(proto[p]))

\* CreateTopic failed in the managed mode: the user created before is there
C7_Witness ==
  \E p \in Passes : /\ rtErr[p] = ErrOf("CreateTopic")
                    /\ Last(calls[p]) = "CreateTopic"
                    /\ "CreateUser" \in effects[p]
                    /\ tpc[p] = "done"

\* C8, read by the calls: in a pass that selected the bring-your-own protocol, no
\* create-user, create-topic or grant call is issued.
ProvisioningCalls == {"CreateUser", "CreateTopic", "GrantReadEvent", "GrantReadStatus",
                      "GrantWriteSpec"}
IsByoPass(p) == lookups[p] = 1 /\ proto[p] = SecretTransporter /\ detErr[p] = Nil

C8_NoProvisioningCall ==
  \A p \in Passes : IsByoPass(p) =>
    \A i \in 1..Len(calls[p]) : calls[p][i] \notin ProvisioningCalls

\* C8, read by the effects: in a pass that selected the bring-your-own protocol the calls of
\* ReconcileTransport are made on the bring-your-own transporter, on which
\* create-user, create-topic and the grants are no-ops: the pass creates no user,
\* topic or grant, and the credential it returns and stores is the one of the
\* secret.
C8_ByoLeavesBrokerAlone ==
  \A p \in Passes : IsByoPass(p) =>
    /\ effects[p] \cap ProvisioningCalls = {}
    /\ rtConn[p] \in {Nil, secret}
    /\ tStored[p] \in {"none", Nil, secret}
    /\ rtErr[p] = Nil /\ WaitReturned(p) => rtConn[p] = secret

\* a bring-your-own pass that made all the calls and stored the credential of
\* the secret
C8_Witness ==
  \E p \in Passes : /\ IsByoPass(p)
                    /\ calls[p] = Append(RTSteps, CredentialPoll)
                    /\ tStored[p] = secret /\ TransportConn = secret

\* C9: in the managed mode the watcher is installed at most once, KafkaInit is
\* set only after an installation succeeded, and no pass reports readiness
\* while the kafka controller has no connection.
C9_WatcherInstalledOnce ==
  /\ watcherInstalls <= 1
  /\ KafkaInit => watcherInstalls >= 1
  /\ \A p \in Passes :
       (Ready(p) /\ proto[p] = StrimziTransporter) => kafkaConn # Nil

\* C10: when both tasks of a pass have sent an error, the error returned by
\* ReconcileMiddleware reports both of them.
Reports(e, err) == e # Nil /\ \E i \in 1..Len(e) : e[i] = err

C10_CombinedError ==
  \A p \in Passes :
    (Returned(p) /\ tSent[p] # Nil /\ sSent[p] # Nil) =>
      (Reports(result[p].err, tSent[p]) /\ Reports(result[p].err, sSent[p]))

\* ---- the error channel and the shared results ----
\* positions of a task from which it can still reach a send on errorChan
TransportMaySend(p) == tpc[p] \notin {"idle", "byoStore", "done"}
StorageMaySend(p) == spc[p] \notin {"idle", "store", "done"}
SentCount(p) == (IF tSent[p] # Nil THEN 1 ELSE 0) + (IF sSent[p] # Nil THEN 1 ELSE 0)

\* C18: each task of a pass sends at most one error (after its send it is at a
\* position from which no send is reached), a task that can still send finds
\* a free slot in a channel that is open (so no send blocks, whether or not
\* ReconcileMiddleware still reads), the channel holds no more than what the
\* tasks sent, it is closed only after both tasks finished, and the waits of
\* the polls are bounded by the poll timeout, so that no goroutine stays.
C18_NoBlockedSender ==
  \A p \in Passes :
    /\ Len(errorChan[p]) <= SentCount(p)
    /\ TransportMaySend(p) => (tSent[p] = Nil /\ CanSend(p))
    /\ StorageMaySend(p) => (sSent[p] = Nil /\ CanSend(p))
    /\ closed[p] => (wg[p] = 0 /\ tpc[p] = "done" /\ spc[p] = "done")
    /\ (tpc[p] = "done" /\ spc[p] = "done") <=> (p <= pass /\ wg[p] = 0)
    /\ elapsed[p] <= PollTimeout /\ sElapsed[p] <= PollTimeout

\* both tasks sent an error, ReconcileMiddleware returned after the first one,
\* and the channel was closed with the second one left in it
C18_Witness ==
  \E p \in Passes :
    /\ tSent[p] # Nil /\ sSent[p] # Nil
    /\ Returned(p)
    /\ closed[p]
    /\ Len(errorChan[p]) = 1

\* a task is at an assignment to the field: lines 74 and 99, line 111, line 93
WritesTransportConn(p) ==
  tpc[p] = "byoStore" \/ (tpc[p] = "chkConn" /\ kafkaConn # Nil)
WritesStorageConn(p) == spc[p] = "store"
WritesKafkaInit(p) == tpc[p] = "setInit"

\* C19: no two tasks are at an assignment to the same shared field at the
\* same time, and once a later pass has started no task of an earlier pass is
\* at an assignment to TransportConn, StorageConn or KafkaInit.
C19_SingleWriter ==
  \A p, q \in Passes :
    (p < q /\ q <= pass) =>
      /\ ~(WritesTransportConn(p) /\ WritesTransportConn(q))
      /\ ~(WritesStorageConn(p) /\ WritesStorageConn(q))
      /\ ~(WritesKafkaInit(p) /\ WritesKafkaInit(q))
      /\ ~WritesTransportConn(p)
      /\ ~WritesStorageConn(p)
      /\ ~WritesKafkaInit(p)

\* a task that sent an error ends in this step
TransportTaskFails(p) == tpc[p] # "done" /\ tpc'[p] = "done" /\ tSent'[p] # Nil
StorageTaskFails(p) == spc[p] # "done" /\ spc'[p] = "done" /\ sSent'[p] # Nil

\* C20: a task that failed leaves the connection stored by an earlier pass as
\* it was: a TransportConn (a StorageConn) that is not nil when the failed
\* transport (storage) task of the latest pass ends has the same value after
\* it.
C20_FailedTaskKeepsConn ==
  [][\A p \in Passes :
       p = pass =>
         /\ (TransportTaskFails(p) /\ TransportConn # Nil) =>
              TransportConn' = TransportConn
         /\ (StorageTaskFails(p) /\ StorageConn # Nil) =>
              StorageConn' = StorageConn]_vars

\* the tasks of the passes before p have ended
EarlierPassesEnded(p) ==
  \A q \in Passes : q < p => (tpc[q] = "done" /\ spc[q] = "done")

\* C21: ReconcileStorage does not return a nil connection with a nil error,
\* and when the latest pass reports readiness (the tasks of the earlier passes
\* having ended) TransportConn and StorageConn are both not nil.
C21_ReadyHasConnections ==
  \A p \in Passes :
    /\ (spc[p] = "store" /\ sSent[p] = Nil) => sConn[p] # Nil
    /\ (p = pass /\ Ready(p) /\ EarlierPassesEnded(p)) =>
         (TransportConn # Nil /\ StorageConn # Nil)

\* ---- the generic consumer ----
Started == startOf # 0
Decodable(rows) == \A i \in 1..Len(rows) : rows[i].payload[1] = "json"

\* C16: with the offset recovery enabled, Start queries the store; when the
\* store returns records of the consumer's identity, the receive loop gets
\* exactly their (topic, partition, offset), one per record and in their order;
\* with no record it gets the default position; when the query or the decoding
\* of a record fails, Start has returned that error and the loop is not started.
\* With the recovery disabled the store is not queried and the position is the
\* default one.
C16_OffsetRecovery ==
  Started =>
    LET c == consumers[startOf] IN
    /\ ~c.enableDatabaseOffset => (queried = "no" /\ receiveContext = <<>>)
    /\ c.enableDatabaseOffset => queried # "no"
    /\ \A i \in 1..Len(positions) : positions[i].owner = c.clusterIdentity
    /\ queried = "failed" => (startPc = "returned" /\ startErr = ErrQuery)
    /\ (queried = "done" /\ ~Decodable(positions)) =>
         (startPc = "returned" /\ startErr = ErrUnmarshal /\ receiveContext = <<>>)
    /\ (queried = "done" /\ Decodable(positions)) =>
         /\ Len(receiveContext) = Len(positions)
         /\ \A i \in 1..Len(positions) :
              /\ receiveContext[i].Topic = positions[i].name
              /\ receiveContext[i].Partition = positions[i].payload[2]
              /\ receiveContext[i].Offset = positions[i].payload[3]
    /\ startPc = "receiving" => startErr = Nil

\* the receive loop started with the positions of two records of the store
C16_Witness ==
  /\ startPc = "receiving" /\ queried = "done"
  /\ Len(positions) = 2
  /\ receiveContext[1] = [Topic |-> "status.hub1", Partition |-> 0, Offset |-> 42]
  /\ receiveContext[2] = [Topic |-> "status.hub2", Partition |-> 1, Offset |-> 7]

\* C17: for the channel protocol there is one channel per topic key, every
\* channel made is still the channel of its key, and every consumer is bound to
\* the channel of its topic (the first topic of its list, or "event"), so that
\* consumers of one topic share one channel.
IsChanConsumer(i) == consumers[i].receiver.kind = ChanType

C17_SharedChannel ==
  /\ chanCount = Cardinality(DOMAIN Extends.m)
  /\ \A t \in DOMAIN Extends.m : Extends.m[t] \in 1..chanCount
  /\ \A t, u \in DOMAIN Extends.m : Extends.m[t] = Extends.m[u] => t = u
  /\ \A i \in 1..Len(consumers) : IsChanConsumer(i) =>
       LET t == ConsumerTopic(consumers[i].consumeTopics) IN
       /\ ~Extends.isNil
       /\ t \in DOMAIN Extends.m
       /\ consumers[i].receiver.id = Extends.m[t]
  /\ \A i, j \in 1..Len(consumers) :
       (/\ IsChanConsumer(i) /\ IsChanConsumer(j)
        /\ ConsumerTopic(consumers[i].consumeTopics) = ConsumerTopic(consumers[j].consumeTopics))
       => consumers[i].receiver = consumers[j].receiver

\* a consumer of the empty topic list and a consumer of the topic "event" share
\* the channel the first of them made
C17_Witness ==
  /\ Len(consumers) = 2
  /\ IsChanConsumer(1) /\ IsChanConsumer(2)
  /\ consumers[1].consumeTopics = <<>> /\ consumers[2].consumeTopics = <<"event">>
  /\ consumers[1].receiver = consumers[2].receiver
  /\ chanCount = 1

\* ---- the receive loop ----
PoolIds == {m.id : m \in pool}
IsPlain(i) == i \in PoolIds /\ MessageOf(i).group = NoGroup
IsChunk(i) == i \in PoolIds /\ MessageOf(i).group # NoGroup
Handled(i) == hpc[i] = "done"
Deliveries(i) == Cardinality({k \in 1..Len(delivered) : delivered[k].id = i})
DeliveredAs(i, data) ==
  \A k \in 1..Len(delivered) : delivered[k].id = i => delivered[k].data = data
Completions == {i \in MsgIds : outcome[i] \in {"complete", "setDataFailed"}}

\* C11: the handler returns a result once per message and the result is always
\* ResultACK, never a negative acknowledgement: for a message without chunk
\* metadata, for a chunk that leaves the assembly incomplete, for a chunk that
\* completes it, and for a completed assembly whose payload could not be set.
C11_AckedExactlyOnce ==
  \A i \in MsgIds :
    /\ Len(acks[i]) <= 1
    /\ \A k \in 1..Len(acks[i]) : acks[i][k] = ResultACK
    /\ Handled(i) <=> acks[i] = <<ResultACK>>

\* a plain message, a chunk that left the assembly incomplete and a chunk whose
\* assembled payload could not be set have all been acknowledged
C11_Witness ==
  /\ \E i \in MsgIds : IsPlain(i) /\ Handled(i) /\ acks[i] = <<ResultACK>>
  /\ \E i \in MsgIds : outcome[i] = "incomplete" /\ Handled(i) /\ acks[i] = <<ResultACK>>
  /\ \E i \in MsgIds : outcome[i] = "setDataFailed" /\ Handled(i) /\ acks[i] = <<ResultACK>>

\* C12, as it reads: a handled message without chunk metadata was forwarded
\* once and unchanged; a handled chunk that did not complete its group was not
\* forwarded; a handled chunk that completed its group was forwarded once with
\* the assembled payload; and there are never more outputs than received
\* messages.
C12_ForwardedExactlyOnce ==
  /\ \A i \in MsgIds : Handled(i) =>
       /\ IsPlain(i) =>
            (forwards[i] = 1 /\ Deliveries(i) = 1 /\ DeliveredAs(i, MessageOf(i).data))
       /\ (IsChunk(i) /\ i \notin Completions) => (forwards[i] = 0 /\ Deliveries(i) = 0)
       /\ i \in Completions =>
            (forwards[i] = 1 /\ Deliveries(i) = 1 /\ DeliveredAs(i, Payload))
  /\ Len(delivered) <= Len(inbox)

\* C12 with the failure of SetData: as above, but a chunk that completed its
\* group is forwarded once with the assembled payload when event.SetData took
\* the payload, and is not forwarded when event.SetData returned an error; no
\* message is sent more than once.
C12_ForwardedUnlessSetDataFails ==
  /\ \A i \in MsgIds :
       /\ forwards[i] <= 1 /\ Deliveries(i) <= forwards[i]
       /\ Handled(i) =>
            /\ IsPlain(i) =>
                 (forwards[i] = 1 /\ Deliveries(i) = 1 /\ DeliveredAs(i, MessageOf(i).data))
            /\ (IsChunk(i) /\ i \notin Completions) => (forwards[i] = 0 /\ Deliveries(i) = 0)
            /\ outcome[i] = "complete" =>
                 (forwards[i] = 1 /\ Deliveries(i) = 1 /\ DeliveredAs(i, Payload))
            /\ outcome[i] = "setDataFailed" => (forwards[i] = 0 /\ Deliveries(i) = 0)
  /\ Len(delivered) <= Len(inbox)

\* all chunks of a group are handled, the payload of the completed assembly
\* could not be set, and the group has produced no output
C12_Witness ==
  /\ \E i \in MsgIds : outcome[i] = "setDataFailed" /\ Handled(i) /\ MessageOf(i).total > 1
  /\ \A i \in MsgIds : IsChunk(i) => (Handled(i) /\ Deliveries(i) = 0)

\* C13: for the payload split into k chunks of one group key and delivered in
\* any order, there is at most one completion; there is none before all chunks
\* are recorded; when all are recorded there is exactly one, its payload is
\* the original payload, and the state of the group is removed.
C13_RoundTrip ==
  LET chunks == {i \in MsgIds : IsChunk(i)}
      recorded == {i \in chunks : outcome[i] # "none"} IN
  /\ Cardinality(Completions) <= 1
  /\ recorded # chunks => Completions = {}
  /\ (recorded # {} /\ recorded # chunks) => Group \in DOMAIN assembler
  /\ (chunks # {} /\ recorded = chunks) =>
       /\ Cardinality(Completions) = 1
       /\ Group \notin DOMAIN assembler
       /\ \A i \in Completions : outcome[i] = "complete" => eventData[i] = Payload
  /\ \A i \in chunks : DeliveredAs(i, Payload)

\* three chunks, of which the one of index 0 was recorded last, have given the
\* original payload to the reader
C13_Witness ==
  \E i \in MsgIds :
    /\ outcome[i] = "complete"
    /\ MessageOf(i).index = 0 /\ MessageOf(i).total = MaxPayload
    /\ Deliveries(i) = 1 /\ DeliveredAs(i, Payload)

\* C14: while a message waits in the send on the output queue, its handler has
\* returned no result and no message received after it is handled; and the
\* reader gets the forwarded messages in the order in which they were received.
InboxIndex(i) == CHOOSE k \in 1..Len(inbox) : inbox[k] = i

C14_BackpressureStalls ==
  /\ \A i \in MsgIds : hpc[i] = "blocked" =>
       (acks[i] = <<>> /\ inbox[Len(inbox)] = i)
  /\ \A k, l \in 1..Len(delivered) :
       k < l => InboxIndex(delivered[k].id) < InboxIndex(delivered[l].id)

\* C15: once ctx is cancelled, Start returns.
C15_CancellationReturns == ctxCancelled ~> (startPc = "returned")
====
